---------------------------- MODULE Spec2Model ----------------------------
(***************************************************************************)
(* Model of assets/js/particles.js: the interactive particle network.      *)
(*                                                                         *)
(* Numbers.  The source computes in IEEE doubles.  Here every number is a  *)
(* fixed-point integer counting hundredths (1.00 is 100): an expression of *)
(* one source statement is evaluated exactly and the value it stores is    *)
(* truncated toward zero to a whole number of hundredths.  Canvas widths   *)
(* and heights are whole pixels, as canvas.width / offsetWidth are.        *)
(*                                                                         *)
(* Math.random().  The generator is a stream: RandomCycle read from a      *)
(* nondeterministically chosen starting phase (seed); every call consumes  *)
(* one entry.  The cycle contains every ordered pair of its values as two  *)
(* consecutive entries.                                                    *)
(*                                                                         *)
(* Control.  JavaScript runs each callback to completion; pc is the        *)
(* position of the one thread of control.  The host dispatches an event or *)
(* a frame callback only when no callback is running (pc "idle" or         *)
(* "inactive").                                                            *)
(***************************************************************************)
EXTENDS Integers, Sequences, FiniteSets

---------------------------------------------------------------------------
(* Bounds of the model *)

\* number of particles (config.particleCount is 120 in the source)
particleCount == 2
\* number of animate() runs explored
MaxFrames == 3
\* number of resize / mousemove / mouseleave events explored
MaxEvents == 2
\* largest field given to drawLines and resize as an input (SpecField)
MaxFieldParticles == 3

---------------------------------------------------------------------------
(* Fixed-point arithmetic *)

FromInt(n) == n * 100

Abs(a) == IF a < 0 THEN -a ELSE a

Min(a, b) == IF a < b THEN a ELSE b

Max(a, b) == IF a > b THEN a ELSE b

\* a / b truncated toward zero, b > 0
TDiv(a, b) == IF a >= 0 THEN a \div b ELSE -((-a) \div b)

\* product of two fixed-point numbers
FMul(a, b) == TDiv(a * b, 100)

\* product of three fixed-point numbers
FMul3(a, b, c) == TDiv(a * b * c, 100 * 100)

\* quotient of two fixed-point numbers
FDiv(a, b) == TDiv(a * 100, b)

RECURSIVE SqrtIter(_, _, _)
SqrtIter(s, lo, hi) ==
    IF lo = hi THEN lo
    ELSE LET mid == (lo + hi + 1) \div 2
         IN  IF mid * mid <= s THEN SqrtIter(s, mid, hi)
                               ELSE SqrtIter(s, lo, mid - 1)

\* Math.sqrt(dx * dx + dy * dy), in hundredths.  A leg longer than 300.00 is
\* returned as the distance: the squares would leave the integer range, and
\* the source only compares such a distance with maxDistance and mouseRadius,
\* which are both smaller.
Hypot(dx, dy) ==
    IF Abs(dx) > 30000 \/ Abs(dy) > 30000
    THEN Max(Abs(dx), Abs(dy))
    ELSE SqrtIter(dx * dx + dy * dy, 0, 46340)

\* Math.cos(Math.atan2(dy, dx)); atan2(0, 0) is 0
CosAtan2(dy, dx) ==
    IF dx = 0 /\ dy = 0 THEN 100 ELSE FDiv(dx, Hypot(dx, dy))

\* Math.sin(Math.atan2(dy, dx))
SinAtan2(dy, dx) ==
    IF dx = 0 /\ dy = 0 THEN 0 ELSE FDiv(dy, Hypot(dx, dy))

---------------------------------------------------------------------------
(* config *)

maxDistance == FromInt(180)
mouseRadius == FromInt(200)
\* 0.3
speed == 30
\* 0.05
mouseForce == 5
\* 0.99
damping == 99
\* 0.1, the threshold and the scale of "Keep particles moving"
floor == 10
\* 0.5, the largest line opacity
halfOpacity == 50

---------------------------------------------------------------------------
(* Inputs *)

\* section.offsetWidth, section.offsetHeight in pixels
Sizes == { <<200, 100>>, <<400, 0>>, <<400, 200>> }

\* e.clientX - rect.left, e.clientY - rect.top in pixels
MousePoints == { <<0, 0>>, <<100, 50>> }

\* values of Math.random(), in [0, 1)
RandomCycle == << 0, 0, 50, 0, 90, 50, 50, 90, 90 >>

Rand(s) == RandomCycle[s]

NextSeed(s) == (s % Len(RandomCycle)) + 1

Null == << >>

Some(v) == << v >>

---------------------------------------------------------------------------
VARIABLES
    pc,            \* position of the thread of control
    canvasFound,   \* document.getElementById(canvasId) is not null
    canvasWidth,   \* canvas.width
    canvasHeight,  \* canvas.height
    particles,     \* this.particles
    mouse,         \* this.mouse
    listeners,     \* events with a bound handler
    pending,       \* frame callbacks requested and not yet run
    idx,           \* index of the forEach in animate
    seed,          \* phase of Math.random()
    ctxLog,        \* calls on ctx since the last clearRect
    evals,         \* pairs evaluated by the last drawLines
    upd,           \* the last Particle.update call: particle on entry, force added
    lastPointer,   \* the last pointer event handled
    rsz,           \* the last resize() run by the handler: sizes and particles before
    frames,        \* animate() runs so far
    events         \* events handled so far

vars == << pc, canvasFound, canvasWidth, canvasHeight, particles, mouse,
           listeners, pending, idx, seed, ctxLog, evals, upd, lastPointer,
           rsz, frames, events >>

NoUpdate ==
    [ i |-> 0, entry |-> [x |-> 0, y |-> 0, vx |-> 0, vy |-> 0],
      mouse |-> [x |-> Null, y |-> Null],
      pushed |-> FALSE, fx |-> 0, fy |-> 0, prior |-> FALSE ]

NoResize ==
    [ at |-> << 0, 0 >>, oldWidth |-> 0, oldHeight |-> 0, before |-> << >> ]

HostIdle == pc \in {"idle", "inactive"}

---------------------------------------------------------------------------
(* Particle *)

\* new Particle(canvas): reset() draws x, y, vx, vy; the constructor then
\* draws x and y again
NewParticle(w, h, s) ==
    LET s1 == NextSeed(s)
        s2 == NextSeed(s1)
        s3 == NextSeed(s2)
        s4 == NextSeed(s3)
        s5 == NextSeed(s4)
    IN  [ p |-> [ x  |-> FMul(Rand(s4), FromInt(w)),
                  y  |-> FMul(Rand(s5), FromInt(h)),
                  vx |-> FMul(Rand(s2) - 50, speed),
                  vy |-> FMul(Rand(s3) - 50, speed) ],
          seed |-> NextSeed(s5) ]

\* update, "Mouse interaction": the force added to the velocity
PointerForce(p, m) ==
    LET present  == m.x # Null /\ m.y # Null
        dx       == IF present THEN p.x - m.x[1] ELSE 0
        dy       == IF present THEN p.y - m.y[1] ELSE 0
        distance == Hypot(dx, dy)
        pushed   == present /\ distance < mouseRadius
        force    == FDiv(mouseRadius - distance, mouseRadius)
    IN  [ pushed |-> pushed,
          fx |-> IF pushed THEN FMul3(CosAtan2(dy, dx), force, mouseForce) ELSE 0,
          fy |-> IF pushed THEN FMul3(SinAtan2(dy, dx), force, mouseForce) ELSE 0 ]

\* update, "Damping"
Damp(v) == FMul(v, damping)

\* KeepMoving with the perturbation scaled by config.speed instead of 0.1
KeepMovingWide(v, s) ==
    IF Abs(v) < floor
    THEN [ v |-> v + FMul(Rand(s) - 50, speed), seed |-> NextSeed(s) ]
    ELSE [ v |-> v, seed |-> s ]

\* update, "Keep particles moving": Math.random() is called only when the
\* component is below the threshold
KeepMoving(v, s) ==
    IF Abs(v) < floor
    THEN [ v |-> v + FMul(Rand(s) - 50, floor), seed |-> NextSeed(s) ]
    ELSE [ v |-> v, seed |-> s ]

\* Bounce that inverts the velocity and leaves the position where it is
BounceNoClamp(pos, v, limit) ==
    IF pos < 0 \/ pos > FromInt(limit)
    THEN [ pos |-> pos, v |-> -v ]
    ELSE [ pos |-> pos, v |-> v ]

\* Bounce that clamps the position and leaves the velocity as it is
BounceKeepsSign(pos, v, limit) ==
    IF pos < 0 \/ pos > FromInt(limit)
    THEN [ pos |-> Max(0, Min(FromInt(limit), pos)), v |-> v ]
    ELSE [ pos |-> pos, v |-> v ]

\* update, "Boundary collision" on one axis; limit is canvas.width or height
Bounce(pos, v, limit) ==
    IF pos < 0 \/ pos > FromInt(limit)
    THEN [ pos |-> Max(0, Min(FromInt(limit), pos)), v |-> -v ]
    ELSE [ pos |-> pos, v |-> v ]

\* Particle.update(mouse)
Update(p, m, w, h, s) ==
    LET f   == PointerForce(p, m)
        vx1 == p.vx + f.fx
        vy1 == p.vy + f.fy
        x1  == p.x + vx1
        y1  == p.y + vy1
        kx  == KeepMoving(Damp(vx1), s)
        ky  == KeepMoving(Damp(vy1), kx.seed)
        bx  == Bounce(x1, kx.v, w)
        by  == Bounce(y1, ky.v, h)
    IN  [ p |-> [ x |-> bx.pos, y |-> by.pos, vx |-> bx.v, vy |-> by.v ],
          seed |-> ky.seed, pushed |-> f.pushed, fx |-> f.fx, fy |-> f.fy ]

---------------------------------------------------------------------------
(* ParticleSystem *)

\* the particles.push loop of init()
RECURSIVE CreateParticles(_, _, _, _, _)
CreateParticles(i, w, h, s, acc) ==
    IF i < particleCount
    THEN LET n == NewParticle(w, h, s)
         IN  CreateParticles(i + 1, w, h, n.seed, [ps |-> Append(acc.ps, n.p), seed |-> n.seed])
    ELSE acc

\* Rescale with y scaled by the widths
RescaleByWidth(ps, oldWidth, oldHeight, newWidth, newHeight) ==
    IF oldWidth > 0 /\ oldHeight > 0
    THEN [ i \in DOMAIN ps |->
             [ ps[i] EXCEPT !.x = TDiv(ps[i].x * newWidth, oldWidth),
                            !.y = TDiv(ps[i].y * newWidth, oldWidth) ] ]
    ELSE ps

\* the forEach of resize()
Rescale(ps, oldWidth, oldHeight, newWidth, newHeight) ==
    IF oldWidth > 0 /\ oldHeight > 0
    THEN [ i \in DOMAIN ps |->
             [ ps[i] EXCEPT !.x = TDiv(ps[i].x * newWidth, oldWidth),
                            !.y = TDiv(ps[i].y * newHeight, oldHeight) ] ]
    ELSE ps

\* EvalPair drawing a line at distance maxDistance too
EvalPairInclusive(ps, i, j) ==
    LET dx       == ps[i + 1].x - ps[j + 1].x
        dy       == ps[i + 1].y - ps[j + 1].y
        distance == Hypot(dx, dy)
        drawn    == distance <= maxDistance
    IN  [ i |-> i, j |-> j, drawn |-> drawn,
          opacity |-> IF drawn
                      THEN TDiv((maxDistance - distance) * halfOpacity, maxDistance)
                      ELSE 0 ]

\* one iteration of the inner loop of drawLines, i and j counted from 0
EvalPair(ps, i, j) ==
    LET dx       == ps[i + 1].x - ps[j + 1].x
        dy       == ps[i + 1].y - ps[j + 1].y
        distance == Hypot(dx, dy)
        drawn    == distance < maxDistance
    IN  [ i |-> i, j |-> j, drawn |-> drawn,
          opacity |-> IF drawn
                      THEN TDiv((maxDistance - distance) * halfOpacity, maxDistance)
                      ELSE 0 ]

RECURSIVE InnerLoop(_, _, _, _)
InnerLoop(ps, i, j, acc) ==
    IF j < Len(ps)
    THEN InnerLoop(ps, i, j + 1, Append(acc, EvalPair(ps, i, j)))
    ELSE acc

\* OuterLoop with the inner loop started at j = i
RECURSIVE OuterLoopFromI(_, _, _)
OuterLoopFromI(ps, i, acc) ==
    IF i < Len(ps)
    THEN OuterLoopFromI(ps, i + 1, InnerLoop(ps, i, i, acc))
    ELSE acc

RECURSIVE OuterLoop(_, _, _)
OuterLoop(ps, i, acc) ==
    IF i < Len(ps)
    THEN OuterLoop(ps, i + 1, InnerLoop(ps, i, i + 1, acc))
    ELSE acc

\* drawLines(): the pairs evaluated, in order
drawLines(ps) == OuterLoop(ps, 0, << >>)

Strokes(es) == [ k \in 1..Len(SelectSeq(es, LAMBDA e : e.drawn)) |-> "stroke" ]

---------------------------------------------------------------------------
Init ==
    /\ pc = "start"
    /\ canvasFound \in BOOLEAN
    /\ canvasWidth = 300       \* a canvas element is 300 x 150 until sized
    /\ canvasHeight = 150
    /\ particles = << >>
    /\ mouse = [x |-> Null, y |-> Null]
    /\ listeners = {}
    /\ pending = 0
    /\ idx = 0
    /\ seed \in DOMAIN RandomCycle
    /\ ctxLog = << >>
    /\ evals = << >>
    /\ upd = NoUpdate
    /\ lastPointer = "none"
    /\ rsz = NoResize
    /\ frames = 0
    /\ events = 0

\* the constructor past the lookup: init() sizes the canvas and creates the
\* particles, bindEvents() binds the three handlers, animate() is entered
Start ==
    \E size \in Sizes :
      LET made == CreateParticles(0, size[1], size[2], seed,
                                  [ps |-> << >>, seed |-> seed])
      IN  /\ canvasWidth' = size[1]
          /\ canvasHeight' = size[2]
          /\ particles' = made.ps
          /\ seed' = made.seed
          /\ listeners' = {"resize", "mousemove", "mouseleave"}
          /\ pc' = "animate"

\* the constructor without its early return: canvas.getContext throws on null
ConstructUnguarded ==
    /\ pc = "start"
    /\ IF ~canvasFound
       THEN /\ pc' = "threw"
            /\ UNCHANGED << canvasWidth, canvasHeight, particles, listeners, seed >>
       ELSE Start
    /\ UNCHANGED << rsz, canvasFound, mouse, pending, idx, ctxLog, evals, upd,
                    lastPointer, frames, events >>

\* new ParticleSystem(canvasId): lookup, init(), bindEvents(), then animate()
Construct ==
    /\ pc = "start"
    /\ IF ~canvasFound
       THEN /\ pc' = "inactive"
            /\ UNCHANGED << canvasWidth, canvasHeight, particles, listeners, seed >>
       ELSE Start
    /\ UNCHANGED << rsz, canvasFound, mouse, pending, idx, ctxLog, evals, upd,
                    lastPointer, frames, events >>

\* animate(): ctx.clearRect
AnimateClear ==
    /\ pc = "animate"
    /\ ctxLog' = << "clearRect" >>
    /\ frames' = frames + 1
    /\ pc' = "drawLines"
    /\ UNCHANGED << rsz, canvasFound, canvasWidth, canvasHeight, particles, mouse,
                    listeners, pending, idx, seed, evals, upd, lastPointer, events >>

\* animate(): this.drawLines()
AnimateDrawLines ==
    /\ pc = "drawLines"
    /\ evals' = drawLines(particles)
    /\ ctxLog' = ctxLog \o Strokes(evals')
    /\ idx' = 1
    /\ pc' = IF Len(particles) = 0 THEN "request" ELSE "forEach"
    /\ UNCHANGED << rsz, canvasFound, canvasWidth, canvasHeight, particles, mouse,
                    listeners, pending, seed, upd, lastPointer, frames, events >>

\* animate(): one iteration of particles.forEach: update(mouse), draw(ctx)
AnimateParticle ==
    /\ pc = "forEach"
    /\ LET r == Update(particles[idx], mouse, canvasWidth, canvasHeight, seed)
       IN  /\ particles' = [particles EXCEPT ![idx] = r.p]
           /\ seed' = r.seed
           /\ upd' = [ i |-> idx, entry |-> particles[idx], mouse |-> mouse,
                       pushed |-> r.pushed, fx |-> r.fx, fy |-> r.fy,
                       prior |-> frames > 1 ]
    /\ ctxLog' = Append(ctxLog, "arc")
    /\ idx' = idx + 1
    /\ pc' = IF idx = Len(particles) THEN "request" ELSE "forEach"
    /\ UNCHANGED << rsz, canvasFound, canvasWidth, canvasHeight, mouse, listeners,
                    pending, evals, lastPointer, frames, events >>

\* animate() returning without requesting the next frame
AnimateNoRequest ==
    /\ pc = "request"
    /\ pc' = "idle"
    /\ UNCHANGED << rsz, canvasFound, canvasWidth, canvasHeight, particles, mouse,
                    listeners, pending, idx, seed, ctxLog, evals, upd, lastPointer,
                    frames, events >>

\* animate(): requestAnimationFrame(() => this.animate())
AnimateRequest ==
    /\ pc = "request"
    /\ pending' = pending + 1
    /\ pc' = "idle"
    /\ UNCHANGED << rsz, canvasFound, canvasWidth, canvasHeight, particles, mouse,
                    listeners, idx, seed, ctxLog, evals, upd, lastPointer,
                    frames, events >>

\* the host runs a requested frame callback
FrameCallback ==
    /\ HostIdle
    /\ pending > 0
    /\ frames < MaxFrames
    /\ pending' = pending - 1
    /\ pc' = "animate"
    /\ UNCHANGED << rsz, canvasFound, canvasWidth, canvasHeight, particles, mouse,
                    listeners, idx, seed, ctxLog, evals, upd, lastPointer,
                    frames, events >>

\* window 'resize' -> resize()
OnResize ==
    /\ HostIdle
    /\ "resize" \in listeners
    /\ events < MaxEvents
    /\ \E size \in Sizes :
         /\ canvasWidth' = size[1]
         /\ canvasHeight' = size[2]
         /\ particles' = Rescale(particles, canvasWidth, canvasHeight, size[1], size[2])
    /\ rsz' = [ at |-> << events + 1, frames >>, oldWidth |-> canvasWidth,
                 oldHeight |-> canvasHeight, before |-> particles ]
    /\ events' = events + 1
    /\ UNCHANGED << pc, canvasFound, mouse, listeners, pending, idx, seed,
                    ctxLog, evals, upd, lastPointer, frames >>

\* canvas 'mousemove'
OnMouseMove ==
    /\ HostIdle
    /\ "mousemove" \in listeners
    /\ events < MaxEvents
    /\ \E pt \in MousePoints :
         mouse' = [x |-> Some(FromInt(pt[1])), y |-> Some(FromInt(pt[2]))]
    /\ lastPointer' = "move"
    /\ events' = events + 1
    /\ UNCHANGED << rsz, pc, canvasFound, canvasWidth, canvasHeight, particles,
                    listeners, pending, idx, seed, ctxLog, evals, upd, frames >>

\* a mouseleave handler that leaves the coordinates in place
OnMouseLeaveKeeps ==
    /\ HostIdle
    /\ "mouseleave" \in listeners
    /\ events < MaxEvents
    /\ lastPointer' = "leave"
    /\ events' = events + 1
    /\ UNCHANGED << rsz, pc, canvasFound, canvasWidth, canvasHeight, particles,
                    mouse, listeners, pending, idx, seed, ctxLog, evals, upd, frames >>

\* canvas 'mouseleave'
OnMouseLeave ==
    /\ HostIdle
    /\ "mouseleave" \in listeners
    /\ events < MaxEvents
    /\ mouse' = [x |-> Null, y |-> Null]
    /\ lastPointer' = "leave"
    /\ events' = events + 1
    /\ UNCHANGED << rsz, pc, canvasFound, canvasWidth, canvasHeight, particles,
                    listeners, pending, idx, seed, ctxLog, evals, upd, frames >>

Next ==
    \/ Construct
    \/ AnimateClear
    \/ AnimateDrawLines
    \/ AnimateParticle
    \/ AnimateRequest
    \/ FrameCallback
    \/ OnResize
    \/ OnMouseMove
    \/ OnMouseLeave

Spec == Init /\ [][Next]_vars

---------------------------------------------------------------------------
(* Particle.update as a function of its inputs: one particle of a running  *)
(* field with position, velocity, pointer and viewport drawn from bounded  *)
(* sets, then frames.                                                      *)

Positions(limit) == { 0, FromInt(limit) \div 2, FromInt(limit) + 500 }

InitUpdate ==
    /\ pc = "idle"
    /\ canvasFound = TRUE
    /\ \E size \in Sizes :
         /\ canvasWidth = size[1]
         /\ canvasHeight = size[2]
         /\ \E x \in Positions(size[1]), y \in Positions(size[2]) \ {0},
               vx \in {-200, 0, 9, 200}, vy \in {-9, 0, 200} :
              particles = << [x |-> x, y |-> y, vx |-> vx, vy |-> vy] >>
    /\ \/ mouse = [x |-> Null, y |-> Null] /\ lastPointer = "none"
       \/ mouse = [x |-> Some(FromInt(100)), y |-> Some(FromInt(50))]
          /\ lastPointer = "move"
    /\ listeners = {"resize", "mousemove", "mouseleave"}
    /\ pending = 1
    /\ idx = 2
    /\ seed \in DOMAIN RandomCycle
    /\ ctxLog = << "clearRect", "arc" >>
    /\ evals = << >>
    /\ upd = NoUpdate
    /\ rsz = NoResize
    /\ frames = 1
    /\ events = 0

NextFrames ==
    \/ AnimateClear
    \/ AnimateDrawLines
    \/ AnimateParticle
    \/ AnimateRequest
    \/ FrameCallback

SpecUpdate == InitUpdate /\ [][NextFrames]_vars

---------------------------------------------------------------------------
(* drawLines and resize as functions of their inputs: a running field of   *)
(* up to MaxFieldParticles particles at rest on chosen points, then frames *)
(* and resize events.                                                      *)

FieldPoints ==
    << << 0, 0 >>, << 5000, 0 >>, << 10000, 5000 >>, << 17999, 0 >>,
       << 18000, 0 >>, << 40000, 20000 >> >>

RECURSIVE PointsAt(_, _)
PointsAt(S, k) ==
    IF k > Len(FieldPoints) THEN << >>
    ELSE IF k \in S
         THEN << [x |-> FieldPoints[k][1], y |-> FieldPoints[k][2], vx |-> 0, vy |-> 0] >>
              \o PointsAt(S, k + 1)
         ELSE PointsAt(S, k + 1)

Arcs(n) == [ k \in 1..n |-> "arc" ]

InitField ==
    /\ pc = "idle"
    /\ canvasFound = TRUE
    /\ \E size \in { <<200, 100>>, <<400, 200>> } :
         /\ canvasWidth = size[1]
         /\ canvasHeight = size[2]
         /\ \E S \in SUBSET { k \in DOMAIN FieldPoints :
                                /\ FieldPoints[k][1] <= FromInt(size[1])
                                /\ FieldPoints[k][2] <= FromInt(size[2]) } :
              /\ Cardinality(S) <= MaxFieldParticles
              /\ particles = PointsAt(S, 1)
    /\ mouse = [x |-> Null, y |-> Null]
    /\ lastPointer = "none"
    /\ listeners = {"resize", "mousemove", "mouseleave"}
    /\ pending = 1
    /\ idx = Len(particles) + 1
    /\ seed \in DOMAIN RandomCycle
    /\ evals = drawLines(particles)
    /\ ctxLog = << "clearRect" >> \o Strokes(evals) \o Arcs(Len(particles))
    /\ upd = NoUpdate
    /\ rsz = NoResize
    /\ frames = 1
    /\ events = 0

NextField ==
    \/ AnimateClear
    \/ AnimateDrawLines
    \/ AnimateParticle
    \/ AnimateRequest
    \/ FrameCallback
    \/ OnResize

SpecField == InitField /\ [][NextField]_vars

---------------------------------------------------------------------------
(* Properties *)

\* Particle.update has just returned for particle upd.i of the running frame
JustUpdated == pc \in {"forEach", "request"} /\ upd.i > 0 /\ idx = upd.i + 1

\* drawLines has just returned: the particles are those it read
JustDrew ==
    \/ pc = "forEach" /\ idx = 1
    \/ pc = "request" /\ Len(particles) = 0

\* the resize handler has just returned
JustResized == pc = "idle" /\ rsz.at = << events, frames >>

InViewport(p) ==
    /\ 0 <= p.x /\ p.x <= FromInt(canvasWidth)
    /\ 0 <= p.y /\ p.y <= FromInt(canvasHeight)

NoPointer(m) == m.x = Null /\ m.y = Null

Clamp(v, limit) == Max(0, Min(FromInt(limit), v))

\* C1. Boundary containment: immediately after Particle.update returns, the
\* particle (and every particle updated before it in the same frame) has
\* 0 <= x <= width and 0 <= y <= height of the current viewport, whatever
\* its position and velocity were on entry.
BoundaryContainment ==
    JustUpdated => \A k \in 1..upd.i : InViewport(particles[k])

\* a particle that entered update beyond the right edge has been put on it
EnteredOutside ==
    /\ JustUpdated
    /\ upd.entry.x > FromInt(canvasWidth)
    /\ particles[upd.i].x = FromInt(canvasWidth)

\* the particle of C2: x = width + 5, vx = +2, no pointer, update has run
ReflectionCase ==
    /\ JustUpdated
    /\ upd.entry.x = FromInt(canvasWidth) + 500
    /\ upd.entry.vx = 200
    /\ NoPointer(upd.mouse)

\* C2 as stated. Reflection correctness: a particle entering update at
\* x = width + 5 with vx = +2 and no pointer leaves it with x = width and
\* vx = -2 (sign inverted, magnitude unchanged).
ReflectionKeepsSpeed ==
    ReflectionCase =>
        /\ particles[upd.i].x = FromInt(canvasWidth)
        /\ particles[upd.i].vx = -200

\* C2 amended. The same particle leaves update with x = width and
\* vx = -1.98: the sign is inverted and the position clamped, after the
\* 0.99 damping of the same update has been applied.
ReflectionAfterDamping ==
    ReflectionCase =>
        /\ particles[upd.i].x = FromInt(canvasWidth)
        /\ particles[upd.i].vx = -198

\* both velocity components are in the near-zero region
NearZero(p) == Abs(p.vx) < floor /\ Abs(p.vy) < floor

\* C3 as stated. Velocity floor: if |vx| < 0.1 and |vy| < 0.1 both hold at
\* the end of one update, they do not both hold at the end of the next
\* update of the same particle.
VelocityFloorNextFrame ==
    (JustUpdated /\ upd.prior /\ NearZero(upd.entry)) => ~NearZero(particles[upd.i])

\* the magnitude of one component after update, given its value v after the
\* pointer force and the value w it has after update
FloorStep(v, w) ==
    IF Abs(Damp(v)) < floor
    THEN /\ Abs(w) < floor + floor \div 2
         /\ Abs(w) - Abs(Damp(v)) <= floor \div 2
         /\ Abs(Damp(v)) - Abs(w) <= floor \div 2
    ELSE Abs(w) = Abs(Damp(v))

\* C3 amended. In every update, a component whose damped magnitude is below
\* 0.1 is changed by a perturbation of at most 0.05 and ends below 0.15; a
\* component whose damped magnitude is at least 0.1 is only damped (and
\* possibly reflected).  The perturbation need not lift the magnitude to
\* 0.1, so a particle may stay in the near-zero region on consecutive frames.
KeepMovingBounded ==
    JustUpdated =>
        /\ FloorStep(upd.entry.vx + upd.fx, particles[upd.i].vx)
        /\ FloorStep(upd.entry.vy + upd.fy, particles[upd.i].vy)

\* a particle in the near-zero region at the end of two consecutive updates
StaysNearZero ==
    /\ JustUpdated
    /\ upd.prior
    /\ NearZero(upd.entry)
    /\ NearZero(particles[upd.i])

\* C4. Resize rescaling: after resize(), when both previous dimensions were
\* positive every particle is at x * newWidth / oldWidth, y * newHeight /
\* oldHeight (to the hundredth), so its relative placement is kept; otherwise
\* positions are unchanged; velocities and the number of particles are
\* unchanged in both cases.
ResizeRescaling ==
    JustResized =>
        /\ Len(particles) = Len(rsz.before)
        /\ \A k \in DOMAIN particles :
             LET a == rsz.before[k]
                 b == particles[k]
             IN  /\ b.vx = a.vx
                 /\ b.vy = a.vy
                 /\ IF rsz.oldWidth > 0 /\ rsz.oldHeight > 0
                    THEN /\ b.x * rsz.oldWidth <= a.x * canvasWidth
                         /\ a.x * canvasWidth < (b.x + 1) * rsz.oldWidth
                         /\ b.y * rsz.oldHeight <= a.y * canvasHeight
                         /\ a.y * canvasHeight < (b.y + 1) * rsz.oldHeight
                    ELSE b.x = a.x /\ b.y = a.y

\* (100, 50) in a 200 x 100 viewport has become (200, 100) in 400 x 200
ResizeExample ==
    /\ JustResized
    /\ rsz.oldWidth = 200 /\ rsz.oldHeight = 100
    /\ canvasWidth = 400 /\ canvasHeight = 200
    /\ \E k \in DOMAIN particles :
         /\ rsz.before[k].x = FromInt(100) /\ rsz.before[k].y = FromInt(50)
         /\ particles[k].x = FromInt(200) /\ particles[k].y = FromInt(100)

\* C5. Silent failure: if the drawing surface is not found the field never
\* starts: no particle, no handler, no frame callback, nothing drawn, no
\* handler ever run, and construction ends normally instead of throwing.
SilentFailure ==
    ~canvasFound =>
        /\ pc \in {"start", "inactive"}
        /\ particles = << >>
        /\ listeners = {}
        /\ pending = 0
        /\ ctxLog = << >>
        /\ evals = << >>
        /\ upd = NoUpdate
        /\ rsz = NoResize
        /\ mouse = [x |-> Null, y |-> Null]
        /\ frames = 0
        /\ events = 0

\* the constructor has returned without a surface
Inactive == ~canvasFound /\ pc = "inactive"

\* C6. Pairwise completeness: one drawLines over N particles evaluates
\* exactly N * (N - 1) / 2 pairs: every unordered pair of distinct particles
\* exactly once, and no particle with itself.
PairwiseCompleteness ==
    pc \in {"forEach", "request", "idle"} =>
        LET N == Len(particles)
        IN  /\ Len(evals) = (N * (N - 1)) \div 2
            /\ \A k \in DOMAIN evals : evals[k].i # evals[k].j
            /\ \A i \in 0..(N - 1) : \A j \in 0..(N - 1) :
                 i < j =>
                   Cardinality({ k \in DOMAIN evals :
                                   {evals[k].i, evals[k].j} = {i, j} }) = 1

\* three particles, three pairs
ThreePairs == pc = "forEach" /\ frames > 1 /\ Len(particles) = 3 /\ Len(evals) = 3

\* the distance the opacity falls by 0.01 over
opacityStep == maxDistance \div halfOpacity

\* C7. Connection rule: drawLines draws a line for a pair if and only if
\* the Euclidean distance is strictly less than maxDistance, and the line's
\* opacity is (1 - distance / maxDistance) * 0.5 to the hundredth: 0.5 exactly
\* at distance 0, never negative, and none drawn at distance >= maxDistance.
ConnectionRule ==
    JustDrew =>
        \A k \in DOMAIN evals :
            LET e    == evals[k]
                dx   == particles[e.i + 1].x - particles[e.j + 1].x
                dy   == particles[e.i + 1].y - particles[e.j + 1].y
                near == /\ Abs(dx) < maxDistance
                        /\ Abs(dy) < maxDistance
                        /\ dx * dx + dy * dy < maxDistance * maxDistance
                o    == e.opacity
            IN  /\ e.drawn <=> near
                /\ e.drawn =>
                     /\ 0 <= o /\ o <= halfOpacity
                     /\ (o = halfOpacity) <=> (dx = 0 /\ dy = 0)
                     /\ o < halfOpacity =>
                          LET lo == opacityStep * (halfOpacity - 1 - o)
                              hi == opacityStep * (halfOpacity - o) + 1
                          IN  /\ lo * lo < dx * dx + dy * dy
                              /\ dx * dx + dy * dy < hi * hi

\* particles at (0, 0) and (50, 0): one line of opacity 0.36
ConnectionExample ==
    /\ JustDrew
    /\ frames > 1
    /\ Len(particles) = 2
    /\ particles[1].x = 0 /\ particles[1].y = 0
    /\ particles[2].x = FromInt(50) /\ particles[2].y = 0
    /\ evals = << [i |-> 0, j |-> 1, drawn |-> TRUE, opacity |-> 36] >>

\* the pointer is present and the particle p is closer to it than mouseRadius
InRange(p) ==
    /\ lastPointer = "move"
    /\ mouse.x # Null /\ mouse.y # Null
    /\ LET dx == p.x - mouse.x[1]
           dy == p.y - mouse.y[1]
       IN  /\ Abs(dx) < mouseRadius
           /\ Abs(dy) < mouseRadius
           /\ dx * dx + dy * dy < mouseRadius * mouseRadius

\* C8. Pointer force: update adds a pointer force to a particle if and only
\* if the last pointer event was a move and the particle is strictly closer
\* to the pointer than mouseRadius; otherwise the force is exactly 0 and the
\* position is integrated with the unchanged velocity.
PointerForceRule ==
    JustUpdated =>
        /\ upd.pushed <=> InRange(upd.entry)
        /\ ~InRange(upd.entry) =>
             /\ upd.fx = 0 /\ upd.fy = 0
             /\ particles[upd.i].x = Clamp(upd.entry.x + upd.entry.vx, canvasWidth)
             /\ particles[upd.i].y = Clamp(upd.entry.y + upd.entry.vy, canvasHeight)

\* a particle in range has been pushed along x
PointerPushed == JustUpdated /\ upd.pushed /\ upd.fx # 0

\* C9. Frame loop: a tick clears, draws the connections, then updates and
\* draws each particle in order, and ends by requesting one frame; between
\* ticks exactly one frame callback is pending, none while a tick runs, and
\* a running field never becomes inactive.
FrameLoop ==
    /\ pending \in {0, 1}
    /\ pc = "idle" => pending = 1
    /\ pc \in {"animate", "drawLines", "forEach", "request"} => pending = 0
    /\ canvasFound => pc # "inactive"
    /\ pc = "drawLines" => ctxLog = << "clearRect" >>
    /\ pc = "forEach" =>
         ctxLog = << "clearRect" >> \o Strokes(evals) \o Arcs(idx - 1)
    /\ pc \in {"request", "idle"} =>
         ctxLog = << "clearRect" >> \o Strokes(evals) \o Arcs(Len(particles))

\* between ticks, after frames and events have interleaved
BetweenTicks == pc = "idle" /\ pending = 1 /\ frames > 1 /\ events > 1

\* C10. Containment at draw time: whenever a tick draws the connection
\* lines, every particle lies within the current viewport.
ContainmentAtDraw ==
    pc = "drawLines" => \A k \in DOMAIN particles : InViewport(particles[k])

=============================================================================
